---- MODULE Spec2Model ----
(***************************************************************************)
(* Model of two command-line programs of the repository's .claude tree:    *)
(*   hooks/enforce-scripts.py      the PreToolUse hook                      *)
(*   scripts/workflow/fix_complete.py  the post-fix automation, with the   *)
(*                                 helpers of scripts/gh_utils.py it calls *)
(* Strings the programs inspect character by character are sequences of    *)
(* one-character strings.                                                  *)
(***************************************************************************)
EXTENDS Integers, Sequences, FiniteSets, TLC

VARIABLES
    hookPc,      \* "idle" | "ready" | "exited"
    hookIn,      \* what the hook reads on stdin
    hookOut,     \* sequence of JSON objects the hook printed on stdout
    hookExit,    \* the hook's exit status (-1 while running)
    pc,          \* position of fix_complete.main
    argv,        \* sys.argv of fix_complete.py
    startHead,   \* HEAD when the script starts: "main" | "feature" | "detached" | "norepo"
    staged,      \* TRUE iff the index holds staged changes when the script starts
    issueReply,  \* what `gh issue view` answers: [rc, stdout]
    branch,      \* current_branch
    title,       \* title
    cmds,        \* external commands issued so far, in order
    result,      \* the result dict
    out,         \* what fix_complete printed on stdout
    exitcode     \* fix_complete's exit status (-1 while running)

hookVars == <<hookPc, hookIn, hookOut, hookExit>>
fixVars == <<pc, argv, startHead, staged, issueReply, branch, title, cmds, result, out, exitcode>>
vars == <<hookVars, fixVars>>

\* Bounds of the model.
MaxWs == 2       \* longest run of whitespace between `gh` and the subcommand
MaxGap == 2      \* longest text between the subcommand and a trailing `issues`
MaxArgs == 3     \* most command-line arguments after the script name

(***************************************************************************)
(* Characters and regular expressions (Python's re, on str)                *)
(***************************************************************************)
Letters == {"a", "b", "e", "g", "h", "i", "l", "p", "s", "t", "u", "x"}

\* \s
IsSpace(c) == c \in {" ", "\t", "\n"}

\* \w
IsWord(c) == c \in Letters \cup {"_", "0"}

\* . (without re.DOTALL)
IsDot(c) == c # "\n"

\* the literal lit occurs in s at position i
HasLit(s, i, lit) ==
    /\ i >= 1
    /\ i + Len(lit) - 1 <= Len(s)
    /\ \A k \in 1..Len(lit) : s[i + k - 1] = lit[k]

WordAt(s, i) == i >= 1 /\ i <= Len(s) /\ IsWord(s[i])

\* \b between positions i-1 and i
Boundary(s, i) == WordAt(s, i - 1) # WordAt(s, i)

\* positions right after a match of  ^gh\s+<word>\b  at the start of s
AfterGhWord(s, word) ==
    { e \in 1..(Len(s) + 1) :
        \E k \in 1..Len(s) :
            /\ HasLit(s, 1, <<"g", "h">>)
            /\ \A j \in 3..(2 + k) : j <= Len(s) /\ IsSpace(s[j])
            /\ HasLit(s, 3 + k, word)
            /\ e = 3 + k + Len(word)
            /\ Boundary(s, e) }

ISSUE == <<"i", "s", "s", "u", "e">>
LABEL == <<"l", "a", "b", "e", "l">>
API == <<"a", "p", "i">>
ISSUES == <<"i", "s", "s", "u", "e", "s">>

\* re.match(r'^gh\s+issue\b', command)
MatchIssue(command) == AfterGhWord(command, ISSUE) # {}

\* re.match(r'^gh\s+label\b', command)
MatchLabel(command) == AfterGhWord(command, LABEL) # {}

\* re.match(r'^gh\s+api\b.*issues', command)
MatchApiIssues(command) ==
    \E e \in AfterGhWord(command, API) :
        \E j \in e..Len(command) :
            /\ HasLit(command, j, ISSUES)
            /\ \A m \in e..(j - 1) : IsDot(command[m])

SCRIPT_CHECK_PATTERNS ==
    << [pattern |-> "issue", category |-> "GitHub issue operations"],
       [pattern |-> "label", category |-> "GitHub label operations"],
       [pattern |-> "api-issues", category |-> "GitHub API issue operations"] >>

ReMatch(pattern, command) ==
    CASE pattern = "issue" -> MatchIssue(command)
      [] pattern = "label" -> MatchLabel(command)
      [] pattern = "api-issues" -> MatchApiIssues(command)

(***************************************************************************)
(* enforce-scripts.py                                                      *)
(***************************************************************************)
Deny(category) ==
    [hookEventName |-> "PreToolUse", permissionDecision |-> "deny", category |-> category]

\* main(): what is printed on stdout and the exit status, for one stdin.
\*   input.json      "invalid": json.load raises JSONDecodeError
\*                   "nonobject": valid JSON that is no object (a list, null, ...)
\*                   "object"
\*   input.tool_name the tool_name field ("" when missing)
\*   input.tool_input "absent" | "nonobject" | "object"
\*   input.commandKind "absent" | "nonstring" | "string"
HookMain(input) ==
    IF input.json = "invalid" THEN [stdout |-> <<>>, status |-> 0]
    ELSE IF input.json = "nonobject" THEN [stdout |-> <<>>, status |-> 1]   \* AttributeError at .get
    ELSE IF input.tool_input = "nonobject" THEN [stdout |-> <<>>, status |-> 1]   \* AttributeError at .get
    ELSE IF input.tool_name # "Bash" THEN [stdout |-> <<>>, status |-> 0]
    ELSE IF input.tool_input = "object" /\ input.commandKind = "nonstring"
         THEN [stdout |-> <<>>, status |-> 1]   \* TypeError in re.match
    ELSE LET command == IF input.tool_input = "object" /\ input.commandKind = "string"
                        THEN input.command ELSE <<>>
             hits == { i \in 1..Len(SCRIPT_CHECK_PATTERNS) :
                         ReMatch(SCRIPT_CHECK_PATTERNS[i].pattern, command) }
         IN  IF hits # {}
             THEN LET first == CHOOSE i \in hits : \A j \in hits : i <= j
                  IN [stdout |-> <<Deny(SCRIPT_CHECK_PATTERNS[first].category)>>, status |-> 0]
             ELSE [stdout |-> <<>>, status |-> 0]

\* The commands the model feeds the hook: head, whitespace, subcommand, gap, and
\* optionally the text `issues`.
RECURSIVE SeqsUpTo(_, _)
SeqsUpTo(S, n) ==
    IF n = 0 THEN {<<>>}
    ELSE LET shorter == SeqsUpTo(S, n - 1)
         IN shorter \cup { Append(q, c) : q \in shorter, c \in S }

Heads == { <<"g", "h">>, <<" ", "g", "h">>, <<"g", "i", "t">> }
Subcommands == { ISSUE, ISSUES, LABEL, API, <<"p", "r">>, <<>> }
Commands ==
    { h \o w \o s \o g \o t :
        h \in Heads, w \in SeqsUpTo({" ", "\t", "\n"}, MaxWs), s \in Subcommands,
        g \in SeqsUpTo({" ", "\n", "x", "/"}, MaxGap), t \in {<<>>, ISSUES} }

HookInputs ==
    { [json |-> "invalid", tool_name |-> "", tool_input |-> "absent",
       commandKind |-> "absent", command |-> <<>>],
      [json |-> "nonobject", tool_name |-> "", tool_input |-> "absent",
       commandKind |-> "absent", command |-> <<>>] }
    \cup [json : {"object"}, tool_name : {"", "Bash", "bash", "Read"},
          tool_input : {"absent", "nonobject"},
          commandKind : {"absent"}, command : {<<>>}]
    \cup [json : {"object"}, tool_name : {"", "Bash", "bash", "Read"},
          tool_input : {"object"},
          commandKind : {"absent", "nonstring"}, command : {<<>>}]
    \cup [json : {"object"}, tool_name : {"Bash", "Read"},
          tool_input : {"object"},
          commandKind : {"string"}, command : Commands]

FixIdle ==
    /\ pc = "idle" /\ argv = <<>> /\ startHead = "norepo" /\ staged = FALSE
    /\ issueReply = [rc |-> 1, stdout |-> ""] /\ branch = "" /\ title = "" /\ cmds = <<>>
    /\ result = [issue |-> 0] /\ out = [kind |-> "none"] /\ exitcode = -1

InitHook ==
    /\ hookPc = "ready"
    /\ hookIn \in HookInputs
    /\ hookOut = <<>>
    /\ hookExit = -1
    /\ FixIdle

RunHook ==
    /\ hookPc = "ready"
    /\ LET r == HookMain(hookIn)
       IN /\ hookOut' = r.stdout
          /\ hookExit' = r.status
    /\ hookPc' = "exited"
    /\ UNCHANGED <<hookIn, fixVars>>

NextHook == RunHook

SpecHook == InitHook /\ [][NextHook]_vars

(***************************************************************************)
(* gh_utils.py: the helpers fix_complete.py calls.  A finished process is  *)
(* [rc, stdout, stderr]; a helper returns its value and the commands it    *)
(* ran, in order.                                                          *)
(***************************************************************************)
Proc(rc, stdout) == [rc |-> rc, stdout |-> stdout, stderr |-> IF rc = 0 THEN "" ELSE "error"]

\* run_cmd(cmd, check): subprocess.run raises CalledProcessError only with check=True
run_cmd(proc, check) ==
    IF check /\ proc.rc # 0
    THEN [success |-> FALSE, output |-> proc.stderr]
    ELSE [success |-> TRUE, output |-> proc.stdout]

None == [tag |-> "None"]
Str(chars) == [tag |-> "str", chars |-> chars]

\* json.loads on the replies of `gh issue view --json title`
JsonLoads(text) ==
    CASE text = "{}" -> [tag |-> "dict", keys |-> {}, title |-> ""]
      [] text = "{\"title\": \"\"}" -> [tag |-> "dict", keys |-> {"title"}, title |-> ""]
      [] text = "{\"title\": \"Crash on load\"}" ->
             [tag |-> "dict", keys |-> {"title"}, title |-> "Crash on load"]

\* get_issue_details(issue_number, "title")
get_issue_details(proc) ==
    LET r == run_cmd(proc, TRUE)
    IN IF r.success /\ r.output # "" THEN JsonLoads(r.output) ELSE None

\* `not issue`
Falsy(issue) == issue.tag = "None" \/ (issue.tag = "dict" /\ issue.keys = {})

\* get_current_branch()
get_current_branch(proc) ==
    LET r == run_cmd(proc, TRUE)
    IN IF r.success THEN r.output ELSE ""

\* add_label(issue_number, label, create_if_missing=True)
add_label(procCreate, procEdit) ==
    LET c == run_cmd(procCreate, FALSE)
        r == run_cmd(procEdit, FALSE)
    IN [cmds |-> <<"gh label create", "gh issue edit --add-label">>, ret |-> r.success]

\* post_comment(issue_number, comment)
post_comment(proc) ==
    [cmds |-> <<"gh issue comment">>, ret |-> run_cmd(proc, TRUE).success]

\* push_branch(branch)
push_branch(proc) ==
    [cmds |-> <<"git push -u origin">>, ret |-> run_cmd(proc, TRUE).success]

merge_to_main_PushFirst(procCheckout, procMerge, procPush) ==
    IF ~run_cmd(procCheckout, TRUE).success
    THEN [cmds |-> <<"git checkout main">>, ret |-> FALSE]
    ELSE IF ~run_cmd(procPush, TRUE).success
    THEN [cmds |-> <<"git checkout main", "git push origin main">>, ret |-> FALSE]
    ELSE [cmds |-> <<"git checkout main", "git push origin main", "git merge">>,
          ret |-> run_cmd(procMerge, TRUE).success]

\* merge_to_main(branch)
merge_to_main(procCheckout, procMerge, procPush) ==
    IF ~run_cmd(procCheckout, TRUE).success
    THEN [cmds |-> <<"git checkout main">>, ret |-> FALSE]
    ELSE IF ~run_cmd(procMerge, TRUE).success
    THEN [cmds |-> <<"git checkout main", "git merge">>, ret |-> FALSE]
    ELSE [cmds |-> <<"git checkout main", "git merge", "git push origin main">>,
          ret |-> run_cmd(procPush, TRUE).success]

\* delete_branch(branch)
delete_branch(procLocal, procRemote) ==
    LET l == run_cmd(procLocal, FALSE)
        r == run_cmd(procRemote, FALSE)
    IN [cmds |-> <<"git branch -d", "git push origin --delete">>, ret |-> r.success]

(***************************************************************************)
(* fix_complete.py                                                         *)
(***************************************************************************)
\* sha[:7]
Take7(sha) == SubSeq(sha, 1, IF Len(sha) < 7 THEN Len(sha) ELSE 7)

\* commit_changes(issue_number, title)
commit_changes(issue_number, t, procCommit, procRevParse) ==
    LET c == run_cmd(procCommit, FALSE)
        message == [subject |-> <<"fix: ", t>>, closes |-> issue_number]
    IN IF c.success
       THEN [cmds |-> <<"git commit", "git rev-parse HEAD">>, message |-> message,
             ok |-> TRUE, sha |-> Str(Take7(run_cmd(procRevParse, TRUE).output))]
       ELSE [cmds |-> <<"git commit">>, message |-> message,
             ok |-> FALSE, sha |-> Str(<<>>)]

NO_CHANGES == Str(<<"n", "o", "_", "c", "h", "a", "n", "g", "e", "s">>)

\* int(sys.argv[1]) succeeds
IsIntStr(a) == a \in {"7", "-3"}

\* int(sys.argv[1])
IntOf(a) == CASE a = "7" -> 7 [] a = "-3" -> 0 - 3

IsMainBranch_Master(current_branch) == current_branch = "master"

\* current_branch == "main"
IsMainBranch(current_branch) == current_branch = "main"

ArgVals == {"7", "-3", "abc", ""}
ArgLists == UNION { [1..n -> ArgVals] : n \in 0..MaxArgs }
IssueReplies ==
    { Proc(1, ""), Proc(0, ""), Proc(0, "{}"),
      Proc(0, "{\"title\": \"\"}"), Proc(0, "{\"title\": \"Crash on load\"}") }
HeadShas == { <<"9", "f", "c", "3", "a", "1", "0", "b", "7", "e">> }
Rcs == {0, 1}

\* what `git branch --show-current` answers in each state of the repository
BranchProc(head) ==
    CASE head = "main" -> Proc(0, "main")
      [] head = "feature" -> Proc(0, "fix/7-crash")
      [] head = "detached" -> Proc(0, "")
      [] head = "norepo" -> Proc(128, "")

HookIdle ==
    /\ hookPc = "idle" /\ hookOut = <<>> /\ hookExit = -1
    /\ hookIn = [json |-> "invalid", tool_name |-> "", tool_input |-> "absent",
                 commandKind |-> "absent", command |-> <<>>]

InitFix ==
    /\ pc = "args"
    /\ argv \in { <<"fix_complete.py">> \o a : a \in ArgLists }
    /\ startHead \in {"main", "feature", "detached", "norepo"}
    /\ staged \in (IF startHead = "norepo" THEN {FALSE} ELSE BOOLEAN)
    /\ issueReply \in IssueReplies
    /\ branch = ""
    /\ title = ""
    /\ cmds = <<>>
    /\ result = [issue |-> 0]
    /\ out = [kind |-> "none"]
    /\ exitcode = -1
    /\ HookIdle

\* print(json.dumps({"error": ...})); sys.exit(1)
ErrorExit(msg) ==
    /\ out' = [kind |-> "error", error |-> msg]
    /\ exitcode' = 1
    /\ pc' = "done"

\* main, lines 60-79
CheckArgs ==
    /\ pc = "args"
    /\ IF Len(argv) < 3
       THEN ErrorExit("usage") /\ UNCHANGED result
       ELSE IF ~IsIntStr(argv[2])
       THEN ErrorExit("Issue number must be an integer") /\ UNCHANGED result
       ELSE /\ result' = [issue |-> IntOf(argv[2]), label_added |-> FALSE,
                          comment_posted |-> FALSE, commit_sha |-> None,
                          merged |-> FALSE, branch_deleted |-> FALSE]
            /\ pc' = "branch"
            /\ UNCHANGED <<out, exitcode>>
    /\ UNCHANGED <<argv, startHead, staged, issueReply, branch, title, cmds, hookVars>>

\* main, lines 81-87
GetBranch ==
    /\ pc = "branch"
    /\ LET current_branch == get_current_branch(BranchProc(startHead))
       IN /\ cmds' = Append(cmds, "git branch --show-current")
          /\ branch' = current_branch
          /\ IF IsMainBranch(current_branch)
             THEN ErrorExit("Cannot run from main branch") /\ UNCHANGED result
             ELSE /\ result' = [branch |-> current_branch] @@ result
                  /\ pc' = "issue"
                  /\ UNCHANGED <<out, exitcode>>
    /\ UNCHANGED <<argv, startHead, staged, issueReply, title, hookVars>>

\* main, lines 89-96
GetIssue ==
    /\ pc = "issue"
    /\ LET issue == get_issue_details(issueReply)
       IN /\ cmds' = Append(cmds, "gh issue view")
          /\ IF Falsy(issue)
             THEN ErrorExit("Could not fetch issue") /\ UNCHANGED <<result, title>>
             ELSE /\ title' = (IF "title" \in issue.keys THEN issue.title ELSE "")
                  /\ result' = [title |-> title'] @@ result
                  /\ pc' = "label"
                  /\ UNCHANGED <<out, exitcode>>
    /\ UNCHANGED <<argv, startHead, staged, issueReply, branch, hookVars>>

\* main, lines 98-99
AddLabel ==
    /\ pc = "label"
    /\ \E rcCreate \in Rcs, rcEdit \in Rcs :
         LET r == add_label(Proc(rcCreate, ""), Proc(rcEdit, ""))
         IN /\ cmds' = cmds \o r.cmds
            /\ result' = [result EXCEPT !.label_added = r.ret]
    /\ pc' = "comment"
    /\ UNCHANGED <<argv, startHead, staged, issueReply, branch, title, out, exitcode, hookVars>>

\* main, lines 101-103
PostComment ==
    /\ pc = "comment"
    /\ \E rc \in Rcs :
         LET r == post_comment(Proc(rc, ""))
         IN /\ cmds' = cmds \o r.cmds
            /\ result' = [result EXCEPT !.comment_posted = r.ret]
    /\ pc' = "commit"
    /\ UNCHANGED <<argv, startHead, staged, issueReply, branch, title, out, exitcode, hookVars>>

\* what `git diff --cached --quiet` answers: 1 iff the index holds staged changes
DiffProc(head, hasStaged) ==
    IF head = "norepo" THEN Proc(129, "") ELSE Proc(IF hasStaged THEN 1 ELSE 0, "")

\* main, lines 105-111
CommitStaged ==
    /\ pc = "commit"
    /\ \E rcCommit \in Rcs, head \in HeadShas :
         LET d == run_cmd(DiffProc(startHead, staged), FALSE)
             c == commit_changes(result.issue, title, Proc(rcCommit, ""), Proc(0, head))
         IN IF ~d.success
            THEN /\ cmds' = cmds \o <<"git diff --cached --quiet">> \o c.cmds
                 /\ result' = [result EXCEPT !.commit_sha = IF c.ok THEN c.sha ELSE None]
            ELSE /\ cmds' = Append(cmds, "git diff --cached --quiet")
                 /\ result' = [result EXCEPT !.commit_sha = NO_CHANGES]
    /\ pc' = "push"
    /\ UNCHANGED <<argv, startHead, staged, issueReply, branch, title, out, exitcode, hookVars>>

\* main, lines 113-114
PushBranch ==
    /\ pc = "push"
    /\ \E rc \in Rcs :
         LET r == push_branch(Proc(rc, ""))
         IN /\ cmds' = cmds \o r.cmds
            /\ result' = [branch_pushed |-> r.ret] @@ result
    /\ pc' = "merge"
    /\ UNCHANGED <<argv, startHead, staged, issueReply, branch, title, out, exitcode, hookVars>>

\* main, lines 116-117
MergeToMain ==
    /\ pc = "merge"
    /\ \E rcCheckout \in Rcs, rcMerge \in Rcs, rcPush \in Rcs :
         LET r == merge_to_main(Proc(rcCheckout, ""), Proc(rcMerge, ""), Proc(rcPush, ""))
         IN /\ cmds' = cmds \o r.cmds
            /\ result' = [result EXCEPT !.merged = r.ret]
    /\ pc' = "delete"
    /\ UNCHANGED <<argv, startHead, staged, issueReply, branch, title, out, exitcode, hookVars>>

\* main, lines 119-121
DeleteBranch ==
    /\ pc = "delete"
    /\ IF result.merged
       THEN \E rcLocal \in Rcs, rcRemote \in Rcs :
              LET r == delete_branch(Proc(rcLocal, ""), Proc(rcRemote, ""))
              IN /\ cmds' = cmds \o r.cmds
                 /\ result' = [result EXCEPT !.branch_deleted = r.ret]
       ELSE UNCHANGED <<cmds, result>>
    /\ pc' = "print"
    /\ UNCHANGED <<argv, startHead, staged, issueReply, branch, title, out, exitcode, hookVars>>

\* main, line 123, and the interpreter's normal exit
PrintResult ==
    /\ pc = "print"
    /\ out' = [kind |-> "result", json |-> result]
    /\ exitcode' = 0
    /\ pc' = "done"
    /\ UNCHANGED <<argv, startHead, staged, issueReply, branch, title, cmds, result, hookVars>>

NextFix ==
    \/ CheckArgs
    \/ GetBranch
    \/ GetIssue
    \/ AddLabel
    \/ PostComment
    \/ CommitStaged
    \/ PushBranch
    \/ MergeToMain
    \/ DeleteBranch
    \/ PrintResult

SpecFix == InitFix /\ [][NextFix]_vars

(***************************************************************************)
(* Properties                                                              *)
(***************************************************************************)
\* stdin is a JSON object whose tool_name is "Bash" and whose command is a string
BashCommandInput ==
    /\ hookIn.json = "object"
    /\ hookIn.tool_name = "Bash"
    /\ hookIn.tool_input = "object"
    /\ hookIn.commandKind = "string"

\* s starts with `gh`, whitespace and the word `word`
StartsGhWord(s, word) == AfterGhWord(s, word) # {}

\* s starts with `gh`, whitespace and the word `api`, and the text `issues`
\* occurs anywhere after it
StartsGhApiThenIssues(s) ==
    \E e \in AfterGhWord(s, API) : \E j \in e..Len(s) : HasLit(s, j, ISSUES)

\* the category the statement of C1 names for s ("" when none)
ListedCategory(s) ==
    IF StartsGhWord(s, ISSUE) THEN "GitHub issue operations"
    ELSE IF StartsGhWord(s, LABEL) THEN "GitHub label operations"
    ELSE IF StartsGhApiThenIssues(s) THEN "GitHub API issue operations"
    ELSE ""

\* C1: every Bash command that starts with `gh issue`, `gh label`, or `gh api`
\* followed anywhere later by `issues` gets exactly one deny decision naming the
\* first matching category, and exit status 0.
C1_ListedCommandsDenied ==
    (hookPc = "exited" /\ BashCommandInput /\ ListedCategory(hookIn.command) # "")
        => /\ hookOut = <<Deny(ListedCategory(hookIn.command))>>
           /\ hookExit = 0

\* the command main() hands to re.match, when it is a string
EffectiveCommand ==
    IF hookIn.tool_input = "object" /\ hookIn.commandKind = "string"
    THEN hookIn.command ELSE <<>>

\* tool_name is exactly "Bash" and the command matches one of the three patterns
BashAndMatches ==
    /\ hookIn.json = "object"
    /\ hookIn.tool_name = "Bash"
    /\ hookIn.tool_input # "nonobject"
    /\ hookIn.commandKind # "nonstring"
    /\ \E i \in 1..Len(SCRIPT_CHECK_PATTERNS) :
         ReMatch(SCRIPT_CHECK_PATTERNS[i].pattern, EffectiveCommand)

\* C2: a deny decision is printed only for a Bash command that matches a pattern;
\* for every other stdin the hook prints nothing and exits with status 0.
C2_OtherInputsAllowed ==
    hookPc = "exited"
        => /\ hookOut # <<>> => BashAndMatches
           /\ ~BashAndMatches => (hookOut = <<>> /\ hookExit = 0)

MutatingCommands ==
    { "gh label create", "gh issue edit --add-label", "gh issue comment",
      "git commit", "git push -u origin", "git checkout main", "git merge",
      "git push origin main", "git branch -d", "git push origin --delete" }

Issued(c) == \E i \in DOMAIN cmds : cmds[i] = c

\* the run is one the statement of C3 is about
RejectedStart ==
    \/ Len(argv) < 3
    \/ ~IsIntStr(argv[2])
    \/ startHead = "main"
    \/ issueReply.rc # 0
    \/ issueReply.stdout = ""

\* C3: started with fewer than two arguments, a non-integer issue number, on
\* branch main, or for an issue that cannot be fetched, fix_complete.py never
\* issues a mutating command and ends by printing an error object with status 1.
C3_RejectedRunsMutateNothing ==
    (pc # "idle" /\ RejectedStart)
        => /\ \A c \in MutatingCommands : ~Issued(c)
           /\ pc = "done" => (out.kind = "error" /\ exitcode = 1)
           /\ pc \in {"args", "branch", "issue", "done"}

\* C3's case: the argument and branch checks passed, the issue could not be
\* fetched, and the script has exited
C3_Witness ==
    /\ pc = "done"
    /\ Len(argv) >= 3 /\ IsIntStr(argv[2]) /\ startHead = "feature"
    /\ issueReply.rc # 0
    /\ Issued("gh issue view")
    /\ out.kind = "error"

AfterCommitStep == {"push", "merge", "delete", "print", "done"}

\* C4: with staged changes in the index the script runs `git commit` and reports
\* the 7-character SHA (null if the commit fails); commit_sha is "no_changes"
\* only when nothing is staged.
C4_StagedChangesCommitted ==
    (pc \in AfterCommitStep /\ out.kind # "error")
        => /\ staged => /\ Issued("git commit")
                        /\ \/ result.commit_sha = None
                           \/ \E h \in HeadShas : result.commit_sha = Str(Take7(h))
           /\ result.commit_sha = NO_CHANGES => ~staged

\* the numbered action of the docstring a command belongs to (0: a read-only query)
ActionOf(c) ==
    CASE c \in {"gh label create", "gh issue edit --add-label"} -> 1
      [] c = "gh issue comment" -> 2
      [] c \in {"git diff --cached --quiet", "git commit", "git rev-parse HEAD"} -> 3
      [] c = "git push -u origin" -> 4
      [] c \in {"git checkout main", "git merge"} -> 5
      [] c = "git push origin main" -> 6
      [] c \in {"git branch -d", "git push origin --delete"} -> 7
      [] OTHER -> 0

====
